---- MODULE Spec2Model ----
(***************************************************************************)
(* Hospital-Management-System: the PatientManagementSystem class in its    *)
(* two variants (src/pms_core.py, src/dsa_pbl/pms_core.py), the JSON       *)
(* document store (src/deploy/data_manager.py) and the two Flask front     *)
(* ends (src/app.py, src/deploy/app.py).                                   *)
(*                                                                         *)
(* Text that the code transforms (names, usernames) is a sequence of       *)
(* one-character strings; text that is only compared or stored (dates,     *)
(* times, passwords, problems, specialties) is a TLA+ string.  Identifiers *)
(* produced by _generate_id are the positive integers, drawn in order, so  *)
(* that every generated identifier is fresh (uuid4 prefixes are taken not  *)
(* to collide).  Python's None is NoneId.                                  *)
(***************************************************************************)
EXTENDS Integers, Sequences, FiniteSets, TLC

VARIABLES
    variant,        \* "core": src/pms_core.py, "dsa": src/dsa_pbl/pms_core.py
    frontend,       \* "api": methods called directly; "app": src/app.py; "deploy": src/deploy/app.py
    mem,            \* pms.data, the document held by the instance
    file,           \* pms_data.json, the persisted document
    current_user,   \* pms.current_user
    session,        \* the Flask session cookie of the one browser
    nextId,         \* the next identifier _generate_id hands out
    requests,       \* the requests of two more browsers that a threaded server interleaves
    last            \* the last operation, its arguments and what it returned

vars == <<variant, frontend, mem, file, current_user, session, nextId, requests, last>>

-----------------------------------------------------------------------------
(* Bounds of the model *)

MaxId == 5

MaxAppts == 2

\* the scenario of two cardiologists (SpecHeart)
HeartMaxId == 6

HeartMaxAppts == 3

MaxDoctors == 2

-----------------------------------------------------------------------------
(* Values *)

NoneId == 0

NullKey == -1

EmptyMap == [k \in {} |-> k]

MapPut(f, k, v) == [x \in (DOMAIN f) \cup {k} |-> IF x = k THEN v ELSE f[x]]

Last(s) == s[Len(s)]

Front(s) == SubSeq(s, 1, Len(s) - 1)

UpperAlpha == <<"A","B","C","D","E","F","G","H","I","J","K","L","M",
                "N","O","P","Q","R","S","T","U","V","W","X","Y","Z">>

LowerAlpha == <<"a","b","c","d","e","f","g","h","i","j","k","l","m",
                "n","o","p","q","r","s","t","u","v","w","x","y","z">>

LowerChar(c) ==
    IF \E i \in 1..Len(UpperAlpha) : UpperAlpha[i] = c
    THEN LowerAlpha[CHOOSE i \in 1..Len(UpperAlpha) : UpperAlpha[i] = c]
    ELSE c

\* str.lower()
str_lower(s) == [i \in 1..Len(s) |-> LowerChar(s[i])]

\* str.replace(' ', '_')
str_replace_space(s) == [i \in 1..Len(s) |-> IF s[i] = " " THEN "_" ELSE s[i]]

RECURSIVE str_lstrip(_)
str_lstrip(s) == IF s # <<>> /\ Head(s) = " " THEN str_lstrip(Tail(s)) ELSE s

RECURSIVE str_rstrip(_)
str_rstrip(s) == IF s # <<>> /\ Last(s) = " " THEN str_rstrip(Front(s)) ELSE s

\* str.strip()
str_strip(s) == str_rstrip(str_lstrip(s))

AdminName == <<"a","d","m","i","n">>

TestPatientName == <<"t","e","s","t","_","p","a","t","i","e","n","t">>

\* datetime.now(): the day and the minute of the wall clock
Today == "2026-11-03"

Dates == {Today, "2026-11-04"}

ClockTime == "10:07"

\* name, age, gender as typed into a form
Persons == { [name |-> <<"A","n","n">>, age |-> "30", gender |-> "F"],
             [name |-> <<"B","o","b">>, age |-> "41", gender |-> "M"] }

NoPerson == [name |-> <<>>, age |-> "", gender |-> ""]

DoctorNames == { <<"D","r"," ","A">>, <<"D","r"," ","B">> }

Specialties == {"Cardiology", "General Physician"}

\* book_appointment of src/pms_core.py never reads the time, that of
\* src/dsa_pbl/pms_core.py never reads the problem or a doctor's specialty
Problems(v) == IF v = "core" THEN {"Heart", "Cough"} ELSE {"Heart"}

Times(v) == IF v = "core" THEN {"09:00"} ELSE {"09:00", "17:50", "12:00"}

SpecialtiesOf(v) == IF v = "core" THEN Specialties ELSE {"Cardiology"}

DatesOf(v) == IF v = "core" THEN Dates ELSE {Today}

\* the form of a booking
Booker == [name |-> <<"A","n","n">>, age |-> "30", gender |-> "F"]

-----------------------------------------------------------------------------
(* The document store: src/deploy/data_manager.py *)

DefaultDoc ==
    [ users        |-> [u \in {AdminName} |-> [password |-> "adminpass", role |-> "Admin", id |-> NoneId]],
      patients     |-> EmptyMap,
      doctors      |-> <<>>,
      appointments |-> <<>>,
      reports      |-> EmptyMap,
      referrals    |-> <<>> ]

\* json.dump writes a None key of an object as "null" (a later key of the same
\* text wins on load); json.load gives "null" back as a string, never as None.
JsonKeys(m) ==
    IF NoneId \in DOMAIN m
    THEN [k \in ((DOMAIN m) \ {NoneId}) \cup {NullKey} |-> IF k = NullKey THEN m[NoneId] ELSE m[k]]
    ELSE m

JsonDoc(doc) == [doc EXCEPT !.patients = JsonKeys(@), !.reports = JsonKeys(@)]

NoFile == [state |-> "missing", doc |-> DefaultDoc]

\* a slip: what is left of the text is returned whatever its state
load_data_whatever(f) == f.doc

load_data(f) == IF f.state = "ok" THEN f.doc ELSE DefaultDoc

save_data(doc) == [state |-> "ok", doc |-> JsonDoc(doc)]

-----------------------------------------------------------------------------
(* What an operation reports *)

Blank ==
    [ op |-> "init", ok |-> TRUE, msg |-> "", user |-> <<>>, pw |-> "",
      pid |-> NoneId, doc |-> NoneId, appt |-> NoneId, specialty |-> "",
      date |-> "", time |-> "", problem |-> "", person |-> NoPerson, ids |-> {},
      found |-> <<>>, counts |-> EmptyMap ]

NoUser == [username |-> <<>>, role |-> "None", id |-> NoneId]

\* The browsers whose requests interleave, and a browser with no cookie and no
\* request in progress.  pc is where its request stands in the route; data is
\* the route's local `data`; user, pw, person, date, time, problem are the form.
Callers == {1, 2}

Idle ==
    [ pc |-> "idle", who |-> NoUser, data |-> EmptyMap, user |-> <<>>, pw |-> "",
      pid |-> NoneId, person |-> NoPerson, date |-> "", time |-> "", problem |-> "" ]

\* What a method does: the document it leaves in self.data, whether it called
\* save_data(self.data), how many identifiers it drew, and what it returned.
Outcome(data, save, used, ret) == [data |-> data, save |-> save, used |-> used, ret |-> ret]

-----------------------------------------------------------------------------
(* PatientManagementSystem: authentication and administration *)

login_ok(data, username, password) ==
    /\ username \in DOMAIN data.users
    /\ data.users[username].password = password

login_user(data, username) ==
    [username |-> username, role |-> data.users[username].role, id |-> data.users[username].id]

\* a slip: a failed login logs the current user out
login_current_user_reset(data, cu, username, password) ==
    IF login_ok(data, username, password) THEN login_user(data, username) ELSE NoUser

\* self.current_user after login(username, password): assigned on success only
login_current_user(data, cu, username, password) ==
    IF login_ok(data, username, password) THEN login_user(data, username) ELSE cu

\* one return False for an unknown username and for a wrong password; the route
\* flashes "Invalid username or password." for it
login_message(data, username, password) ==
    IF login_ok(data, username, password) THEN "" ELSE "InvalidCredentials"

doctor_username(name) == str_replace_space(str_lower(name))

\* a slip: the username is not looked up before the records are written
add_doctor_unchecked(data, fresh, name, specialty, password) ==
    LET doctor_id == fresh
        username  == doctor_username(name)
        ret       == [Blank EXCEPT !.op = "add_doctor", !.user = username]
    IN  Outcome(
            [data EXCEPT
                !.doctors = Append(@, [id |-> doctor_id, name |-> name, specialty |-> specialty]),
                !.users = MapPut(@, username, [password |-> password, role |-> "Doctor", id |-> doctor_id])],
            TRUE, 1, [ret EXCEPT !.doc = doctor_id])

add_doctor(data, fresh, name, specialty, password) ==
    LET doctor_id == fresh
        username  == doctor_username(name)
        ret       == [Blank EXCEPT !.op = "add_doctor", !.user = username]
    IN  IF username \in DOMAIN data.users
        THEN Outcome(data, FALSE, 0, [ret EXCEPT !.ok = FALSE, !.msg = "UsernameExists"])
        ELSE Outcome(
                [data EXCEPT
                    !.doctors = Append(@, [id |-> doctor_id, name |-> name, specialty |-> specialty]),
                    !.users = MapPut(@, username, [password |-> password, role |-> "Doctor", id |-> doctor_id])],
                TRUE, 1, [ret EXCEPT !.doc = doctor_id])

-----------------------------------------------------------------------------
(* PatientManagementSystem.book_appointment, src/pms_core.py: routing by specialty *)

ProblemKeys == {"Heart", "Fever", "Skin", "Diabetes", "Bone", "Can't say"}

problem_to_specialty ==
    [p \in ProblemKeys |->
        CASE p = "Heart"     -> "Cardiology"
          [] p = "Fever"     -> "General Physician"
          [] p = "Skin"      -> "Dermatologist"
          [] p = "Diabetes"  -> "Endocrinologist"
          [] p = "Bone"      -> "Orthopedic"
          [] p = "Can't say" -> "General Physician"]

\* a slip: the first specialty of the table as the default
resolve_specialty_first_default(problem) ==
    IF problem \in DOMAIN problem_to_specialty THEN problem_to_specialty[problem]
    ELSE "Cardiology"

\* problem_to_specialty.get(problem, "General Physician")
resolve_specialty(problem) ==
    IF problem \in DOMAIN problem_to_specialty THEN problem_to_specialty[problem]
    ELSE "General Physician"

\* a slip: any doctor when none has the specialty
candidate_doctors_or_any(data, specialty) ==
    IF SelectSeq(data.doctors, LAMBDA d : d.specialty = specialty) = <<>> THEN data.doctors
    ELSE SelectSeq(data.doctors, LAMBDA d : d.specialty = specialty)

\* [doc for doc in self.data['doctors'].values() if doc['specialty'] == specialty]
candidate_doctors(data, specialty) ==
    SelectSeq(data.doctors, LAMBDA d : d.specialty = specialty)

\* sum(1 for a in self.data['appointments'] if a['doctor_id']==d['id'] and a['date']==date)
same_day_count(data, d, date) ==
    Cardinality({i \in 1..Len(data.appointments) :
                    /\ data.appointments[i].doctor_id = d.id
                    /\ data.appointments[i].date = date})

\* a slip: the candidates left in insertion order
sort_skipped(data, doctors, date) == doctors

\* a slip: sort(..., reverse=True), still stable
RECURSIVE sort_by_count_reversed(_, _, _)
sort_by_count_reversed(data, doctors, date) ==
    IF doctors = <<>> THEN <<>>
    ELSE LET rest == sort_by_count_reversed(data, Front(doctors), date)
             x    == Last(doctors)
             p    == Cardinality({i \in 1..Len(rest) :
                        same_day_count(data, rest[i], date) >= same_day_count(data, x, date)})
         IN  SubSeq(rest, 1, p) \o <<x>> \o SubSeq(rest, p + 1, Len(rest))

\* list.sort(key=...): ascending and stable
RECURSIVE sort_by_count(_, _, _)
sort_by_count(data, doctors, date) ==
    IF doctors = <<>> THEN <<>>
    ELSE LET rest == sort_by_count(data, Front(doctors), date)
             x    == Last(doctors)
             p    == Cardinality({i \in 1..Len(rest) :
                        same_day_count(data, rest[i], date) <= same_day_count(data, x, date)})
         IN  SubSeq(rest, 1, p) \o <<x>> \o SubSeq(rest, p + 1, Len(rest))

book_appointment_core(data, cu, fresh, person, date, time, problem) ==
    LET generated  == cu.id = NoneId
        patient_id == IF generated THEN fresh ELSE cu.id
        specialty  == resolve_specialty(problem)
        doctors    == candidate_doctors(data, specialty)
        ret        == [Blank EXCEPT !.op = "book", !.date = date, !.time = time,
                                    !.problem = problem, !.specialty = specialty]
    IN  IF doctors = <<>>
        THEN Outcome(data, FALSE, 0, [ret EXCEPT !.ok = FALSE, !.msg = "NoDoctor"])
        ELSE LET doctor      == sort_by_count(data, doctors, date)[1]
                 appt_id     == IF generated THEN fresh + 1 ELSE fresh
                 appointment == [id |-> appt_id, patient_id |-> patient_id,
                                 doctor_id |-> doctor.id, date |-> date, time |-> time,
                                 problem |-> problem, status |-> "Approved"]
             IN  Outcome([data EXCEPT !.appointments = Append(@, appointment)],
                         TRUE, IF generated THEN 2 ELSE 1,
                         [ret EXCEPT !.pid = patient_id, !.doc = doctor.id, !.appt = appt_id,
                                     !.specialty = doctor.specialty])

-----------------------------------------------------------------------------
(* PatientManagementSystem.book_appointment, src/dsa_pbl/pms_core.py: fixed slots, conflict check *)

\* a slip: range(9, 13)
MorningHoursThroughNoon == 9..12

MorningHours == 9..11

AfternoonHours == 14..17

SlotMinutes == {m \in 0..59 : m % 10 = 0}

Digit == <<"0","1","2","3","4","5","6","7","8","9">>

\* f"{n:02d}" for 0 <= n < 100
two_digits(n) == Digit[(n \div 10) + 1] \o Digit[(n % 10) + 1]

allowed_times ==
    {two_digits(h) \o ":" \o two_digits(m) : h \in MorningHours \cup AfternoonHours, m \in SlotMinutes}

patient_record(patient_id, person) ==
    [id |-> patient_id, name |-> person.name, age |-> person.age, gender |-> person.gender]

\* a slip: the record is never created
ensure_patient_skipped(data, patient_id, person) == data

\* if patient_id not in self.data['patients']: self.data['patients'][patient_id] = {...}
ensure_patient(data, patient_id, person) ==
    IF patient_id \notin DOMAIN data.patients
    THEN [data EXCEPT !.patients = MapPut(@, patient_id, patient_record(patient_id, person))]
    ELSE data

\* a slip: the status compared in lower case, which no record carries
booking_conflict_lower_case(data, doctor_id, date, time) ==
    \E i \in 1..Len(data.appointments) :
        /\ data.appointments[i].doctor_id = doctor_id
        /\ data.appointments[i].date = date
        /\ data.appointments[i].time = time
        /\ data.appointments[i].status = "approved"

booking_conflict(data, doctor_id, date, time) ==
    \E i \in 1..Len(data.appointments) :
        /\ data.appointments[i].doctor_id = doctor_id
        /\ data.appointments[i].date = date
        /\ data.appointments[i].time = time
        /\ data.appointments[i].status = "Approved"

book_appointment_dsa(data, cu, fresh, person, date, time, problem) ==
    LET patient_id == cu.id
        data1      == ensure_patient(data, patient_id, person)
        ret        == [Blank EXCEPT !.op = "book", !.date = date, !.time = time,
                                    !.problem = problem, !.pid = patient_id]
    IN  IF time \notin allowed_times
        THEN Outcome(data1, FALSE, 0, [ret EXCEPT !.ok = FALSE, !.msg = "InvalidSlot"])
        ELSE IF data1.doctors = <<>>
        THEN Outcome(data1, FALSE, 0, [ret EXCEPT !.ok = FALSE, !.msg = "NoDoctors"])
        ELSE LET assigned_doc_id == data1.doctors[1].id
             IN  IF booking_conflict(data1, assigned_doc_id, date, time)
                 THEN Outcome(data1, FALSE, 0,
                              [ret EXCEPT !.ok = FALSE, !.msg = "Conflict", !.doc = assigned_doc_id])
                 ELSE Outcome(
                        [data1 EXCEPT !.appointments =
                            Append(@, [id |-> fresh, patient_id |-> patient_id,
                                       doctor_id |-> assigned_doc_id, date |-> date, time |-> time,
                                       problem |-> problem, status |-> "Approved"])],
                        TRUE, 1, [ret EXCEPT !.doc = assigned_doc_id, !.appt = fresh])

-----------------------------------------------------------------------------
(* log_emergency and get_emergency_cases, both variants *)

\* a slip: the patient's earlier appointments are turned into emergencies too
log_emergency_rewriting(data, cu, fresh, person, problem) ==
    LET patient_id == cu.id
        data1      == ensure_patient(data, patient_id, person)
        emergency  == [id |-> fresh, patient_id |-> patient_id, doctor_id |-> NoneId,
                       date |-> Today, time |-> ClockTime, problem |-> problem,
                       status |-> "Emergency"]
        marked     == [i \in 1..Len(data1.appointments) |->
                         IF data1.appointments[i].patient_id = patient_id
                         THEN [data1.appointments[i] EXCEPT !.status = "Emergency"]
                         ELSE data1.appointments[i]]
    IN  Outcome([data1 EXCEPT !.appointments = Append(marked, emergency)], TRUE, 1,
                [Blank EXCEPT !.op = "emergency", !.pid = patient_id, !.appt = fresh,
                              !.problem = problem, !.person = person,
                              !.date = Today, !.time = ClockTime])

log_emergency(data, cu, fresh, person, problem) ==
    LET patient_id == cu.id
        data1      == ensure_patient(data, patient_id, person)
        emergency  == [id |-> fresh, patient_id |-> patient_id, doctor_id |-> NoneId,
                       date |-> Today, time |-> ClockTime, problem |-> problem,
                       status |-> "Emergency"]
    IN  Outcome([data1 EXCEPT !.appointments = Append(@, emergency)], TRUE, 1,
                [Blank EXCEPT !.op = "emergency", !.pid = patient_id, !.appt = fresh,
                              !.problem = problem, !.person = person,
                              !.date = Today, !.time = ClockTime])

\* str(status).strip().lower() of the statuses the program writes
status_lower(status) ==
    CASE status = "Approved"  -> "approved"
      [] status = "Emergency" -> "emergency"
      [] OTHER                -> status

is_emergency(v, appt) ==
    IF v = "core" THEN status_lower(appt.status) = "emergency" ELSE appt.status = "Emergency"

\* a slip: only the emergencies assigned to the doctor
emergency_visible_assigned_only(v, appt, doctor_id) ==
    /\ is_emergency(v, appt)
    /\ appt.doctor_id = doctor_id

\* status is Emergency and (doctor_id == self or not doctor_id)
emergency_visible(v, appt, doctor_id) ==
    /\ is_emergency(v, appt)
    /\ (appt.doctor_id = doctor_id \/ appt.doctor_id = NoneId)

patient_name(data, patient_id) ==
    IF patient_id \in DOMAIN data.patients THEN data.patients[patient_id].name
    ELSE <<"U","n","k","n","o","w","n">>

get_emergency_cases(v, data, doctor_id) ==
    LET shown == SelectSeq(data.appointments, LAMBDA a : emergency_visible(v, a, doctor_id))
    IN  [i \in 1..Len(shown) |->
            [ID |-> shown[i].id, PatientName |-> patient_name(data, shown[i].patient_id),
             Problem |-> shown[i].problem, Time |-> shown[i].time,
             AssignedDoctor |-> shown[i].doctor_id]]

-----------------------------------------------------------------------------
(* create_referral and upload_report, both variants *)

patient_known(data, patient_id) == patient_id \in DOMAIN data.patients

\* a slip: the target doctor is never looked up
doctor_known_unchecked(data, doc_id) == TRUE

\* to_doc_id in self.data['doctors']
doctor_known(data, doc_id) == \E i \in 1..Len(data.doctors) : data.doctors[i].id = doc_id

create_referral(data, cu, patient_id, to_doc_id, notes) ==
    LET ret == [Blank EXCEPT !.op = "referral", !.pid = patient_id, !.doc = to_doc_id]
    IN  IF ~patient_known(data, patient_id)
        THEN Outcome(data, FALSE, 0, [ret EXCEPT !.ok = FALSE, !.msg = "PatientNotFound"])
        ELSE IF ~doctor_known(data, to_doc_id)
        THEN Outcome(data, FALSE, 0, [ret EXCEPT !.ok = FALSE, !.msg = "DoctorNotFound"])
        ELSE Outcome([data EXCEPT !.referrals =
                        Append(@, [patient_id |-> patient_id, from_doc_id |-> cu.id,
                                   to_doc_id |-> to_doc_id, date |-> Today, notes |-> notes])],
                     TRUE, 0, ret)

\* a key that is absent from the report: File or Details is stored only when truthy
NoText == ""

\* self.data['reports'].setdefault(patient_id, []).append(report)
reports_append(reports, patient_id, report) ==
    MapPut(reports, patient_id,
           IF patient_id \in DOMAIN reports THEN Append(reports[patient_id], report)
           ELSE <<report>>)

upload_report(data, cu, fresh, patient_id, details, file_name) ==
    LET ret == [Blank EXCEPT !.op = "report", !.pid = patient_id]
    IN  IF ~patient_known(data, patient_id)
        THEN Outcome(data, FALSE, 0, [ret EXCEPT !.ok = FALSE, !.msg = "PatientNotFound"])
        ELSE LET report == [report_id |-> fresh, date |-> Today, doctor_id |-> cu.id,
                            File |-> file_name, Details |-> details]
             IN  Outcome([data EXCEPT !.reports = reports_append(@, patient_id, report)],
                         TRUE, 1, [ret EXCEPT !.appt = fresh])

-----------------------------------------------------------------------------
(* get_upcoming_checkup, both variants *)

\* datetime.strptime(..., '%Y-%m-%d'), within November 2026: the day of the month
strptime_day(date) == CHOOSE d \in 1..30 : "2026-11-" \o two_digits(d) = date

\* datetime.strptime(..., '%H:%M'): the minute of the day
strptime_minute(time) ==
    LET hm == CHOOSE x \in (0..23) \X (0..59) : two_digits(x[1]) \o ":" \o two_digits(x[2]) = time
    IN  hm[1] * 60 + hm[2]

\* the parsed values of the dates and times that are ever written
DayOf == [d \in Dates |-> strptime_day(d)]

MinuteOf == [t \in {"09:00", "17:50", "12:00", ClockTime} |-> strptime_minute(t)]

\* datetime.strptime(f"{date} {time}", '%Y-%m-%d %H:%M'), in minutes
strptime(date, time) == DayOf[date] * 1440 + MinuteOf[time]

\* datetime.now(), in minutes
now == strptime(Today, ClockTime)

is_approved(v, appt) ==
    IF v = "core" THEN status_lower(appt.status) = "approved" ELSE appt.status = "Approved"

doctor_name(data, doctor_id) ==
    IF \E i \in 1..Len(data.doctors) : data.doctors[i].id = doctor_id
    THEN data.doctors[CHOOSE i \in 1..Len(data.doctors) : data.doctors[i].id = doctor_id].name
    ELSE <<"N","/","A">>

\* a slip: every later appointment of the loop replaces the one found so far
checkup_replaces_always(appt_dt, found) == TRUE

\* not upcoming or appt_dt < upcoming['datetime']
checkup_replaces(appt_dt, found) == found = <<>> \/ appt_dt < found[1].datetime

\* the loop of get_upcoming_checkup over the first n appointments;
\* <<>> is None, <<u>> the dict it holds
RECURSIVE upcoming_after(_, _, _, _)
upcoming_after(v, data, pid, n) ==
    IF n = 0 THEN <<>>
    ELSE LET upcoming == upcoming_after(v, data, pid, n - 1)
             appt     == data.appointments[n]
             appt_dt  == strptime(appt.date, appt.time)
         IN  IF /\ appt.patient_id = pid
                /\ is_approved(v, appt)
                /\ appt_dt > now
                /\ checkup_replaces(appt_dt, upcoming)
             THEN << [datetime |-> appt_dt, Date |-> appt.date, Time |-> appt.time,
                      Doctor |-> doctor_name(data, appt.doctor_id), Problem |-> appt.problem] >>
             ELSE upcoming

get_upcoming_checkup(v, data, cu) == upcoming_after(v, data, cu.id, Len(data.appointments))

-----------------------------------------------------------------------------
(* get_today_appointments: the grid of src/pms_core.py, the list of src/dsa_pbl/pms_core.py *)

\* for h in range(9, 12) ... for h in range(14, 18) ... for m in range(0, 60, 10)
grid_slots ==
    {two_digits(h) \o ":" \o two_digits(m) : h \in (9..11) \cup (14..17), m \in {0, 10, 20, 30, 40, 50}}

\* appt.get('doctor_id') == doctor_id and appt.get('date') == today and status == 'approved'
on_todays_grid(appt, doctor_id) ==
    /\ appt.doctor_id = doctor_id
    /\ appt.date = Today
    /\ status_lower(appt.status) = "approved"

\* the schedule after the first n appointments were gone through: the slot of
\* the appointment's time, if there is one, is overwritten
RECURSIVE schedule_after(_, _, _)
schedule_after(data, doctor_id, n) ==
    IF n = 0
    THEN [t \in grid_slots |->
            [status |-> "Available", patient |-> <<"-">>, problem |-> "-", appt_id |-> NoneId]]
    ELSE LET schedule == schedule_after(data, doctor_id, n - 1)
             appt     == data.appointments[n]
         IN  IF on_todays_grid(appt, doctor_id) /\ appt.time \in grid_slots
             THEN [schedule EXCEPT ![appt.time] =
                      [status |-> "Booked", patient |-> patient_name(data, appt.patient_id),
                       problem |-> appt.problem, appt_id |-> appt.id]]
             ELSE schedule

get_today_appointments_core(data, doctor_id) ==
    schedule_after(data, doctor_id, Len(data.appointments))

get_today_appointments_dsa(data, doctor_id) ==
    LET shown == SelectSeq(data.appointments,
                           LAMBDA a : /\ a.doctor_id = doctor_id
                                      /\ a.date = Today
                                      /\ a.status = "Approved")
    IN  [i \in 1..Len(shown) |->
            [ID |-> shown[i].id, PatientName |-> patient_name(data, shown[i].patient_id),
             Problem |-> shown[i].problem, Time |-> shown[i].time]]

\* the appointment ids a view shows
booked_ids(schedule) ==
    {schedule[t].appt_id : t \in {x \in DOMAIN schedule : schedule[x].status = "Booked"}}

list_ids(appointments) == {appointments[i].ID : i \in 1..Len(appointments)}

-----------------------------------------------------------------------------
(* One PatientManagementSystem instance, its methods called in any order *)

\* who logs in: the administrator and the pre-configured patient
LoginAttempts == { <<AdminName, "adminpass">>, <<TestPatientName, "patientpass">> }

\* a slip: the slot-checking method of src/dsa_pbl is the one both variants run
book_appointment_slot_checked(v, data, cu, fresh, person, date, time, problem) ==
    book_appointment_dsa(data, cu, fresh, person, date, time, problem)

book_appointment(v, data, cu, fresh, person, date, time, problem) ==
    IF v = "core" THEN book_appointment_core(data, cu, fresh, person, date, time, problem)
    ELSE book_appointment_dsa(data, cu, fresh, person, date, time, problem)

\* self.data and the file after a method ran
Effect(r) ==
    /\ mem' = r.data
    /\ file' = IF r.save THEN save_data(r.data) ELSE file
    /\ nextId' = nextId + r.used
    /\ last' = r.ret

test_patient_user(pid) == [password |-> "patientpass", role |-> "Patient", id |-> pid]

test_patient_record ==
    [name |-> <<"T","e","s","t"," ","P","a","t","i","e","n","t">>, age |-> "35", gender |-> "M"]

\* works on its own load_data() copy, never on self.data
setup_initial_patient(f, fresh) ==
    LET data == load_data(f)
    IN  IF TestPatientName \notin DOMAIN data.users
        THEN [file |-> save_data([data EXCEPT
                        !.users = MapPut(@, TestPatientName, test_patient_user(fresh)),
                        !.patients = MapPut(@, fresh, patient_record(fresh, test_patient_record))]),
              used |-> 1, ret |-> TRUE]
        ELSE [file |-> f, used |-> 0, ret |-> FALSE]

\* Every front end starts the same way (src/app.py:33-34, src/deploy/app.py:37-38,
\* src/dsa_pbl/cli_frontend.py:204-208), here on a machine with no pms_data.json yet:
\*     pms = PatientManagementSystem()      self.data = load_data(), current_user = None
\*     pms.setup_initial_patient()
Startup(v, fe) ==
    LET r == setup_initial_patient(NoFile, 1)
    IN  /\ variant = v
        /\ frontend = fe
        /\ mem = load_data(NoFile)
        /\ file = r.file
        /\ current_user = NoUser
        /\ session = NoUser
        /\ requests = [c \in Callers |-> Idle]
        /\ nextId = 1 + r.used
        /\ last = [Blank EXCEPT !.op = "setup", !.ok = r.ret]

Init == \E v \in {"core", "dsa"} : Startup(v, "api")

Login(username, password) ==
    /\ current_user' = login_current_user(mem, current_user, username, password)
    /\ last' = [Blank EXCEPT !.op = "login", !.ok = login_ok(mem, username, password),
                             !.user = username, !.pw = password,
                             !.msg = login_message(mem, username, password)]
    /\ UNCHANGED <<requests, variant, frontend, mem, file, session, nextId>>

Reload ==
    /\ mem' = load_data(file)
    /\ last' = [Blank EXCEPT !.op = "reload"]
    /\ UNCHANGED <<requests, variant, frontend, file, current_user, session, nextId>>

\* maxId and maxAppts bound the model: the identifiers drawn and the appointments held
AddDoctor(maxId, name, specialty, password) ==
    LET r == add_doctor(mem, nextId, name, specialty, password)
    IN  /\ nextId + r.used - 1 <= maxId
        /\ Len(mem.doctors) < MaxDoctors
        /\ Effect(r)
        /\ UNCHANGED <<requests, variant, frontend, current_user, session>>

\* current_user None: self.current_user['id'] raises before anything is done
BookAppointment(maxId, maxAppts, person, date, time, problem) ==
    LET r == book_appointment(variant, mem, current_user, nextId, person, date, time, problem)
    IN  /\ current_user # NoUser
        /\ nextId + r.used - 1 <= maxId
        /\ Len(mem.appointments) < maxAppts
        /\ Effect(r)
        /\ UNCHANGED <<requests, variant, frontend, current_user, session>>

LogEmergency(maxId, maxAppts, person, problem) ==
    LET r == log_emergency(mem, current_user, nextId, person, problem)
    IN  /\ current_user # NoUser
        /\ nextId + r.used - 1 <= maxId
        /\ Len(mem.appointments) < maxAppts
        /\ Effect(r)
        /\ UNCHANGED <<requests, variant, frontend, current_user, session>>

GetEmergencyCases(doctor_id) ==
    /\ LET view == get_emergency_cases(variant, mem, doctor_id)
       IN  last' = [Blank EXCEPT !.op = "emergencies", !.doc = doctor_id,
                                 !.ids = {view[i].ID : i \in 1..Len(view)}]
    /\ UNCHANGED <<requests, variant, frontend, mem, file, current_user, session, nextId>>

Next ==
    \/ \E a \in LoginAttempts : Login(a[1], a[2])
    \/ Reload
    \/ \E n \in DoctorNames, s \in SpecialtiesOf(variant) : AddDoctor(MaxId, n, s, "docpass")
    \/ \E d \in DatesOf(variant), t \in Times(variant), p \in Problems(variant) :
            BookAppointment(MaxId, MaxAppts, Booker, d, t, p)
    \/ \E who \in Persons : LogEmergency(MaxId, MaxAppts, who, "Heart")
    \/ \E i \in 1..Len(mem.doctors) : GetEmergencyCases(mem.doctors[i].id)

Spec == Init /\ [][Next]_vars

-----------------------------------------------------------------------------
(* The routing allocator of src/pms_core.py where every doctor is a cardiologist
   and every problem is "Heart" *)

InitHeart == Startup("core", "api")

NextHeart ==
    \/ \E a \in LoginAttempts : Login(a[1], a[2])
    \/ Reload
    \/ \E n \in DoctorNames : AddDoctor(HeartMaxId, n, "Cardiology", "docpass")
    \/ \E d \in Dates : BookAppointment(HeartMaxId, HeartMaxAppts, Booker, d, "09:00", "Heart")

SpecHeart == InitHeart /\ [][NextHeart]_vars

-----------------------------------------------------------------------------
(* The records of the document: every method that writes, in any order, with
   one form of each kind *)

\* the identifiers drawn bound the doctors, appointments and reports together
RecMaxId == 3

MaxReferrals == 1

\* an identifier typed at a prompt that no record carries
UnknownId == 99

DoctorAName == <<"D","r"," ","A">>

\* "Test Patient" derives the username of the pre-configured patient
RecDoctorNames == { DoctorAName, <<"T","e","s","t"," ","P","a","t","i","e","n","t">> }

RecLoginAttempts ==
    { <<AdminName, "adminpass">>, <<doctor_username(DoctorAName), "docpass">> }

RecTimes(v) == IF v = "core" THEN {"09:00"} ELSE {"09:00", "12:00"}

PatientIdInputs == (DOMAIN mem.patients) \cup {UnknownId}

DoctorIdInputs == {mem.doctors[i].id : i \in 1..Len(mem.doctors)} \cup {UnknownId}

InitRecords == \E v \in {"core", "dsa"} : Startup(v, "api")

\* current_user None: self.current_user['id'] raises once both ids are found
CreateReferral(patient_id, to_doc_id, notes) ==
    LET r == create_referral(mem, current_user, patient_id, to_doc_id, notes)
    IN  /\ current_user # NoUser
        /\ Len(mem.referrals) < MaxReferrals
        /\ Effect(r)
        /\ UNCHANGED <<requests, variant, frontend, current_user, session>>

UploadReport(maxId, patient_id, details, file_name) ==
    LET r == upload_report(mem, current_user, nextId, patient_id, details, file_name)
    IN  /\ current_user # NoUser
        /\ nextId + r.used - 1 <= maxId
        /\ Effect(r)
        /\ UNCHANGED <<requests, variant, frontend, current_user, session>>

NextRecords ==
    \/ \E a \in RecLoginAttempts : Login(a[1], a[2])
    \/ Reload
    \/ AddDoctor(RecMaxId, DoctorAName, "Cardiology", "docpass")
    \/ \E t \in RecTimes(variant) : BookAppointment(RecMaxId, RecMaxId, Booker, Today, t, "Heart")
    \/ LogEmergency(RecMaxId, RecMaxId, Booker, "Heart")
    \/ \E p \in PatientIdInputs, d \in DoctorIdInputs : CreateReferral(p, d, "see")
    \/ \E p \in PatientIdInputs : UploadReport(RecMaxId, p, "fine", NoText)

SpecRecords == InitRecords /\ [][NextRecords]_vars

-----------------------------------------------------------------------------
(* The patient's menu: appointments in the past and in the future, emergencies,
   and the upcoming check-up *)

CheckupTimes == {"09:00", "17:50"}

CheckupLoginAttempts == { <<AdminName, "adminpass">>, <<TestPatientName, "patientpass">> }

InitCheckup == \E v \in {"core", "dsa"} : Startup(v, "api")

\* current_user None: self.current_user['id'] raises
GetUpcomingCheckup ==
    /\ current_user # NoUser
    /\ last' = [Blank EXCEPT !.op = "checkup", !.pid = current_user.id,
                             !.found = get_upcoming_checkup(variant, mem, current_user)]
    /\ UNCHANGED <<requests, variant, frontend, mem, file, current_user, session, nextId>>

NextCheckup ==
    \/ \E a \in CheckupLoginAttempts : Login(a[1], a[2])
    \/ Reload
    \/ AddDoctor(MaxId, DoctorAName, "Cardiology", "docpass")
    \/ \E d \in Dates, t \in CheckupTimes : BookAppointment(MaxId, MaxAppts, Booker, d, t, "Heart")
    \/ LogEmergency(MaxId, MaxAppts, Booker, "Heart")
    \/ GetUpcomingCheckup

SpecCheckup == InitCheckup /\ [][NextCheckup]_vars

-----------------------------------------------------------------------------
(* The administrator and the doctors: accounts created, referrals written *)

NextReferral ==
    \/ \E a \in RecLoginAttempts : Login(a[1], a[2])
    \/ Reload
    \/ \E n \in RecDoctorNames : AddDoctor(RecMaxId, n, "Cardiology", "docpass")
    \/ \E p \in PatientIdInputs, d \in DoctorIdInputs : CreateReferral(p, d, "see")

SpecReferral == InitRecords /\ [][NextReferral]_vars

-----------------------------------------------------------------------------
(* The Flask front ends, src/app.py and src/deploy/app.py, over src/pms_core.py:
   one browser, one server process, one request at a time *)

\* what is typed into the username field, and the password that goes with it
TypedUsernames == { <<"b","o","b">>, <<"B","o","b">> }

WebLoginAttempts ==
    { <<AdminName, "adminpass">>, <<TestPatientName, "patientpass">>,
      <<<<"b","o","b">>, "bobpass">>, <<<<"B","o","b">>, "bobpass">>,
      <<<<"b","o","b">>, "adminpass">> }

\* What a route does: the file, pms.data, the session and pms.current_user it leaves
RouteOutcome(f, data, who, used, ret) ==
    [file |-> f, data |-> data, who |-> who, used |-> used, ret |-> ret]

\* a slip: the username stripped but left in the case it was typed in
signup_username_as_typed(typed) == str_strip(typed)

\* request.form['username'].strip().lower()
signup_username(typed) == str_lower(str_strip(typed))

\* src/app.py: the new user is written to the file only
signup_app(f, data_mem, who, fresh, typed, password, person) ==
    LET username == signup_username(typed)
        data     == load_data(f)
        ret      == [Blank EXCEPT !.op = "signup", !.user = typed, !.pw = password]
    IN  IF username \in DOMAIN data.users
        THEN RouteOutcome(f, data_mem, who, 0, [ret EXCEPT !.ok = FALSE, !.msg = "UsernameExists"])
        ELSE LET patient_id == fresh
                 saved == save_data([data EXCEPT
                            !.users = MapPut(@, username,
                                [password |-> password, role |-> "Patient", id |-> patient_id]),
                            !.patients = MapPut(@, patient_id, patient_record(patient_id, person))])
             IN  RouteOutcome(saved, data_mem,
                              [username |-> username, role |-> "Patient", id |-> patient_id],
                              1, [ret EXCEPT !.pid = patient_id])

\* src/deploy/app.py: the same, then pms.reload()
signup_deploy(f, data_mem, who, fresh, typed, password, person) ==
    LET username == signup_username(typed)
        data     == load_data(f)
        ret      == [Blank EXCEPT !.op = "signup", !.user = typed, !.pw = password]
    IN  IF username \in DOMAIN data.users
        THEN RouteOutcome(f, data_mem, who, 0, [ret EXCEPT !.ok = FALSE, !.msg = "UsernameExists"])
        ELSE LET patient_id == fresh
                 saved == save_data([data EXCEPT
                            !.users = MapPut(@, username,
                                [password |-> password, role |-> "Patient", id |-> patient_id]),
                            !.patients = MapPut(@, patient_id, patient_record(patient_id, person))])
             IN  RouteOutcome(saved, load_data(saved),
                              [username |-> username, role |-> "Patient", id |-> patient_id],
                              1, [ret EXCEPT !.pid = patient_id])

\* login_required(role): 'username' in session and session['role'] == role
login_required(role) == session # NoUser /\ session.role = role

\* the redirect to the login page of a request login_required turns away
Denied(op) ==
    /\ last' = [Blank EXCEPT !.op = op, !.ok = FALSE, !.msg = "Denied"]
    /\ UNCHANGED <<requests, variant, frontend, mem, file, current_user, session, nextId>>

InitWeb == \E fe \in {"app", "deploy"} : Startup("core", fe)

WebSignup(typed, password, person) ==
    LET r == IF frontend = "app"
             THEN signup_app(file, mem, session, nextId, typed, password, person)
             ELSE signup_deploy(file, mem, session, nextId, typed, password, person)
    IN  /\ nextId + r.used - 1 <= MaxId
        /\ file' = r.file
        /\ mem' = r.data
        /\ session' = r.who
        /\ current_user' = IF r.ret.ok THEN r.who ELSE current_user
        /\ nextId' = nextId + r.used
        /\ last' = r.ret
        /\ UNCHANGED <<requests, variant, frontend>>

\* the login route: the username is stripped, not lower-cased
WebLogin(typed, password) ==
    LET username == str_strip(typed)
        ok       == login_ok(mem, username, password)
    IN  /\ current_user' = login_current_user(mem, current_user, username, password)
        /\ session' = IF ok THEN login_user(mem, username) ELSE session
        /\ last' = [Blank EXCEPT !.op = "login", !.ok = ok, !.user = typed, !.pw = password,
                                 !.msg = login_message(mem, username, password)]
        /\ UNCHANGED <<requests, variant, frontend, mem, file, nextId>>

WebLogout ==
    /\ session # NoUser
    /\ session' = NoUser
    /\ current_user' = NoUser
    /\ last' = [Blank EXCEPT !.op = "logout"]
    /\ UNCHANGED <<requests, variant, frontend, mem, file, nextId>>

\* a slip: the status is not looked at
counted_status_any(appt) == TRUE

\* appt.get('status') == 'Approved'
counted_status(appt) == appt.status = "Approved"

\* the loop of the two count routes over the first n appointments:
\* counts[d] = counts.get(d, 0) + 1; skip_undated is the "if date:" of
\* api_patient_counts in src/deploy/app.py
RECURSIVE patient_counts_after(_, _, _)
patient_counts_after(appointments, n, skip_undated) ==
    IF n = 0 THEN EmptyMap
    ELSE LET counts == patient_counts_after(appointments, n - 1, skip_undated)
             appt   == appointments[n]
             d      == appt.date
         IN  IF counted_status(appt) /\ ~(skip_undated /\ d = "")
             THEN MapPut(counts, d, IF d \in DOMAIN counts THEN counts[d] + 1 ELSE 1)
             ELSE counts

admin_dashboard_counts(data) ==
    patient_counts_after(data.appointments, Len(data.appointments), FALSE)

api_patient_counts(fe, data) ==
    patient_counts_after(data.appointments, Len(data.appointments), fe = "deploy")

AdminDashboard ==
    IF login_required("Admin")
    THEN /\ current_user' = session
         /\ mem' = load_data(file)
         /\ last' = [Blank EXCEPT !.op = "admin_dashboard",
                                  !.counts = admin_dashboard_counts(load_data(file))]
         /\ UNCHANGED <<requests, variant, frontend, file, session, nextId>>
    ELSE Denied("admin_dashboard")

ApiPatientCounts ==
    IF login_required("Admin")
    THEN /\ current_user' = session
         /\ mem' = load_data(file)
         /\ last' = [Blank EXCEPT !.op = "patient_counts",
                                  !.counts = api_patient_counts(frontend, load_data(file))]
         /\ UNCHANGED <<requests, variant, frontend, file, session, nextId>>
    ELSE Denied("patient_counts")

WebAddDoctor(name, specialty, password) ==
    IF login_required("Admin")
    THEN LET r == add_doctor(mem, nextId, name, specialty, password)
         IN  /\ nextId + r.used - 1 <= MaxId
             /\ Len(mem.doctors) < MaxDoctors
             /\ current_user' = session
             /\ Effect(r)
             /\ UNCHANGED <<requests, variant, frontend, session>>
    ELSE Denied("add_doctor")

\* src/app.py goes on to call get_upcoming_checkup(pat_id), which takes no
\* argument: the request ends in a TypeError, after the reload
PatientDashboard ==
    IF login_required("Patient")
    THEN /\ current_user' = session
         /\ mem' = load_data(file)
         /\ last' = [Blank EXCEPT !.op = "patient_dashboard", !.ok = (frontend = "deploy"),
                                  !.msg = IF frontend = "deploy" THEN "" ELSE "TypeError"]
         /\ UNCHANGED <<requests, variant, frontend, file, session, nextId>>
    ELSE Denied("patient_dashboard")

\* src/app.py calls book_appointment(pat_id, doctor_id, date, time, problem),
\* one argument short of the method: a TypeError before the method runs
PatientBook(person, date, time, problem) ==
    IF login_required("Patient")
    THEN IF frontend = "deploy"
         THEN LET r == book_appointment_core(mem, session, nextId, person, date, time, problem)
              IN  /\ nextId + r.used - 1 <= MaxId
                  /\ Len(mem.appointments) < MaxAppts
                  /\ current_user' = session
                  /\ Effect(r)
                  /\ UNCHANGED <<requests, variant, frontend, session>>
         ELSE /\ current_user' = session
              /\ last' = [Blank EXCEPT !.op = "book", !.ok = FALSE, !.msg = "TypeError"]
              /\ UNCHANGED <<requests, variant, frontend, mem, file, session, nextId>>
    ELSE Denied("book")

\* src/app.py calls log_emergency(pat_id, doctor_id, problem): a TypeError likewise
PatientEmergency(person, problem) ==
    IF login_required("Patient")
    THEN IF frontend = "deploy"
         THEN LET r == log_emergency(mem, session, nextId, person, problem)
              IN  /\ nextId + r.used - 1 <= MaxId
                  /\ Len(mem.appointments) < MaxAppts
                  /\ current_user' = session
                  /\ Effect(r)
                  /\ UNCHANGED <<requests, variant, frontend, session>>
         ELSE /\ current_user' = session
              /\ last' = [Blank EXCEPT !.op = "emergency", !.ok = FALSE, !.msg = "TypeError"]
              /\ UNCHANGED <<requests, variant, frontend, mem, file, session, nextId>>
    ELSE Denied("emergency")

NextWeb ==
    \/ \E u \in TypedUsernames : WebSignup(u, "bobpass", Booker)
    \/ \E a \in WebLoginAttempts : WebLogin(a[1], a[2])
    \/ WebLogout
    \/ AdminDashboard
    \/ \E n \in DoctorNames, s \in Specialties : WebAddDoctor(n, s, "docpass")
    \/ PatientDashboard
    \/ \E d \in Dates, p \in {"Heart", "Cough"} : PatientBook(Booker, d, "09:00", p)
    \/ PatientEmergency(Booker, "Heart")

SpecWeb == InitWeb /\ [][NextWeb]_vars

-----------------------------------------------------------------------------
(* The administrator's chart: appointments booked and emergencies logged by
   patients, counted by the two count routes *)

\* request.form['date']: a day, or nothing filled in
CountDates == Dates \cup {""}

CountLoginAttempts == { <<AdminName, "adminpass">>, <<TestPatientName, "patientpass">> }

NextCounts ==
    \/ \E a \in CountLoginAttempts : WebLogin(a[1], a[2])
    \/ AdminDashboard
    \/ ApiPatientCounts
    \/ WebAddDoctor(DoctorAName, "Cardiology", "docpass")
    \/ \E d \in CountDates : PatientBook(Booker, d, "09:00", "Heart")
    \/ PatientEmergency(Booker, "Heart")

SpecCounts == InitWeb /\ [][NextCounts]_vars

-----------------------------------------------------------------------------
(* The accounts of the front ends: signing up, logging in and out, the
   administrator adding a doctor *)

\* typed at signup: a new name in two cases, and the usernames of the
\* administrator and of the doctor
AccountUsernames ==
    TypedUsernames \cup { <<"A","d","m","i","n">>, <<"D","r","_","A">> }

AccountLoginAttempts ==
    { <<AdminName, "adminpass">>, <<AdminName, "bobpass">>,
      <<<<"b","o","b">>, "bobpass">>, <<<<"B","o","b">>, "bobpass">> }

NextAccounts ==
    \/ \E u \in AccountUsernames : WebSignup(u, "bobpass", Booker)
    \/ \E a \in AccountLoginAttempts : WebLogin(a[1], a[2])
    \/ WebLogout
    \/ AdminDashboard
    \/ WebAddDoctor(DoctorAName, "Cardiology", "docpass")
    \/ PatientDashboard

SpecAccounts == InitWeb /\ [][NextAccounts]_vars

-----------------------------------------------------------------------------
(* The doctor's report upload of the front ends, doctor_upload_report, the same
   in src/app.py and src/deploy/app.py *)

MaxReports == 2

ALLOWED_EXTENSIONS == { <<"p","d","f">>, <<"p","n","g">>, <<"j","p","g">>, <<"j","p","e","g">> }

\* filename.rsplit('.', 1)[1]: what follows the last dot
RECURSIVE after_last_dot(_)
after_last_dot(filename) ==
    IF filename = <<>> \/ Last(filename) = "." THEN <<>>
    ELSE Append(after_last_dot(Front(filename)), Last(filename))

\* '.' in filename and filename.rsplit('.', 1)[1].lower() in ALLOWED_EXTENSIONS
allowed_file(filename) ==
    /\ \E i \in 1..Len(filename) : filename[i] = "."
    /\ str_lower(after_last_dot(filename)) \in ALLOWED_EXTENSIONS

\* f"{uuid.uuid4().hex}_{secure_filename(file.filename)}", the hex digits written "#"
stored_filename(filename) == <<"#", "_">> \o filename

\* a key that is absent from the entry: "Details" or "File" is set only when truthy
NoChars == <<>>

\* file_name is the filename of the uploaded file, NoChars when none was chosen
doctor_upload_report(f, data_mem, who, patient_id, typed_details, file_name) ==
    LET details == str_strip(typed_details)
        ret     == [Blank EXCEPT !.op = "web_report", !.pid = patient_id]
    IN  IF details = NoChars /\ file_name = NoChars
        THEN RouteOutcome(f, data_mem, who, 0, [ret EXCEPT !.ok = FALSE, !.msg = "NothingGiven"])
        ELSE LET data  == load_data(f)
                 entry == [Date |-> Today, Doctor |-> who.username, Details |-> details,
                           File |-> IF file_name # NoChars /\ allowed_file(file_name)
                                    THEN stored_filename(file_name) ELSE NoChars]
                 saved == save_data([data EXCEPT !.reports = reports_append(@, patient_id, entry)])
             IN  RouteOutcome(saved, load_data(saved), who, 0, ret)

ReportCount(data) ==
    Cardinality({<<k, i>> \in (DOMAIN data.reports) \X (1..MaxReports) : i <= Len(data.reports[k])})

DoctorUploadReport(patient_id, typed_details, file_name) ==
    IF login_required("Doctor")
    THEN LET r == doctor_upload_report(file, mem, session, patient_id, typed_details, file_name)
         IN  /\ ReportCount(load_data(file)) < MaxReports
             /\ current_user' = session
             /\ file' = r.file
             /\ mem' = r.data
             /\ last' = r.ret
             /\ UNCHANGED <<requests, variant, frontend, session, nextId>>
    ELSE Denied("web_report")

\* request.form['patient_id']: a patient on file, or an id nobody has
UploadPatientIds == (DOMAIN load_data(file).patients) \cup {UnknownId}

\* the note typed: nothing, blanks, a word
TypedDetails == { <<>>, <<" ">>, <<"o","k">> }

\* the file chosen: none, a scan, a scan with upper-case extension, a program
ChosenFiles == { NoChars, <<"s",".","p","d","f">>, <<"s",".","P","N","G">>, <<"s",".","e","x","e">> }

NextUpload ==
    \/ \E a \in RecLoginAttempts : WebLogin(a[1], a[2])
    \/ WebLogout
    \/ AdminDashboard
    \/ WebAddDoctor(DoctorAName, "Cardiology", "docpass")
    \/ \E p \in UploadPatientIds, d \in TypedDetails, n \in ChosenFiles : DoctorUploadReport(p, d, n)

SpecUpload == InitWeb /\ [][NextUpload]_vars

-----------------------------------------------------------------------------
(* Two browsers and a threaded server (app.run serves each request in a thread
   of its own): the requests are interleaved between the statements that read
   or write pms_data.json, pms.data or pms.current_user.  Each browser has its
   own session cookie, requests[c].who. *)

ThreadMaxId == 5

ThreadMaxAppts == 2

\* the request of browser c moves on
Moves(c, req) == requests' = [requests EXCEPT ![c] = req]

\* signup up to `data = load_data()` and the test of the username
SignupLoad(c, typed, password, person) ==
    LET username == signup_username(typed)
        data     == load_data(file)
    IN  /\ requests[c].pc = "idle"
        /\ IF username \in DOMAIN data.users
           THEN /\ last' = [Blank EXCEPT !.op = "signup", !.ok = FALSE, !.user = typed,
                                         !.msg = "UsernameExists"]
                /\ UNCHANGED requests
           ELSE /\ Moves(c, [requests[c] EXCEPT !.pc = "signup_loaded", !.data = data,
                                                 !.user = username, !.pw = password,
                                                 !.person = person])
                /\ last' = [Blank EXCEPT !.op = "signup_load", !.user = typed]
        /\ UNCHANGED <<variant, frontend, mem, file, current_user, session, nextId>>

\* data['users'][username] = {...}; data['patients'][patient_id] = {...}
signup_document(data, username, password, patient_id, person) ==
    [data EXCEPT
        !.users = MapPut(@, username, [password |-> password, role |-> "Patient", id |-> patient_id]),
        !.patients = MapPut(@, patient_id, patient_record(patient_id, person))]

\* a slip: the document is read again just before it is written
signup_saved_reloading(f, req, patient_id) ==
    save_data(signup_document(load_data(f), req.user, req.pw, patient_id, req.person))

\* save_data(data): the document loaded earlier, with the new account, replaces the file
signup_saved(f, req, patient_id) ==
    save_data(signup_document(req.data, req.user, req.pw, patient_id, req.person))

\* patient_id = pms._generate_id() ... save_data(data)
SignupSave(c) ==
    /\ requests[c].pc = "signup_loaded"
    /\ nextId <= ThreadMaxId
    /\ file' = signup_saved(file, requests[c], nextId)
    /\ nextId' = nextId + 1
    /\ Moves(c, [requests[c] EXCEPT !.pc = "signup_saved", !.pid = nextId, !.data = EmptyMap])
    /\ last' = [Blank EXCEPT !.op = "signup_save", !.pid = nextId]
    /\ UNCHANGED <<variant, frontend, mem, current_user, session>>

\* pms.reload() in src/deploy/app.py only; then the session and pms.current_user
SignupFinish(c) ==
    LET who == [username |-> requests[c].user, role |-> "Patient", id |-> requests[c].pid]
    IN  /\ requests[c].pc = "signup_saved"
        /\ mem' = IF frontend = "deploy" THEN load_data(file) ELSE mem
        /\ current_user' = who
        /\ Moves(c, [Idle EXCEPT !.who = who])
        /\ last' = [Blank EXCEPT !.op = "signup", !.user = who.username, !.pid = who.id]
        /\ UNCHANGED <<variant, frontend, file, session, nextId>>

NextSignups ==
    \/ \E c \in Callers, u \in { <<"b","o","b">>, <<"e","v","e">>, <<"a","d","m","i","n">> } :
            SignupLoad(c, u, "pass", Booker)
    \/ \E c \in Callers : SignupSave(c)
    \/ \E c \in Callers : SignupFinish(c)

SpecSignups == InitWeb /\ [][NextSignups]_vars

-----------------------------------------------------------------------------
(* The stored document going missing or bad under the running application:
   pms_data.json is removed, or a write is cut short (save_data opens the file
   with 'w', which empties it, before json.dump fills it) *)

\* what load_data then meets: no file ("missing"), or text that json.load
\* rejects ("corrupt").  The field doc keeps the document that was there, which
\* no load returns.
FileLost(state) ==
    /\ file.state = "ok"
    /\ file' = [state |-> state, doc |-> file.doc]
    /\ last' = [Blank EXCEPT !.op = "file_lost", !.msg = state]
    /\ UNCHANGED <<requests, variant, frontend, mem, current_user, session, nextId>>

NextLoss ==
    \/ WebSignup(<<"b","o","b">>, "bobpass", Booker)
    \/ \E a \in { <<AdminName, "adminpass">>, <<<<"b","o","b">>, "bobpass">> } : WebLogin(a[1], a[2])
    \/ AdminDashboard
    \/ WebAddDoctor(DoctorAName, "Cardiology", "docpass")
    \/ PatientDashboard
    \/ \E st \in {"missing", "corrupt"} : FileLost(st)

SpecLoss == InitWeb /\ [][NextLoss]_vars

-----------------------------------------------------------------------------
(* Two browsers and a threaded server: the patients' requests.  login_required
   assigns the shared pms.current_user from the cookie of the request, and the
   method called afterwards reads pms.current_user again. *)

\* the signup route, served in one piece
CallerSignup(c, typed, password, person) ==
    LET r == IF frontend = "app"
             THEN signup_app(file, mem, requests[c].who, nextId, typed, password, person)
             ELSE signup_deploy(file, mem, requests[c].who, nextId, typed, password, person)
    IN  /\ requests[c].pc = "idle"
        /\ nextId + r.used - 1 <= ThreadMaxId
        /\ file' = r.file
        /\ mem' = r.data
        /\ Moves(c, [requests[c] EXCEPT !.who = r.who])
        /\ current_user' = IF r.ret.ok THEN r.who ELSE current_user
        /\ nextId' = nextId + r.used
        /\ last' = r.ret
        /\ UNCHANGED <<variant, frontend, session>>

\* the login route, served in one piece
CallerLogin(c, typed, password) ==
    LET username == str_strip(typed)
        ok       == login_ok(mem, username, password)
    IN  /\ requests[c].pc = "idle"
        /\ current_user' = login_current_user(mem, current_user, username, password)
        /\ Moves(c, [requests[c] EXCEPT !.who = IF ok THEN login_user(mem, username) ELSE @])
        /\ last' = [Blank EXCEPT !.op = "login", !.ok = ok, !.user = typed, !.pw = password,
                                 !.msg = login_message(mem, username, password)]
        /\ UNCHANGED <<variant, frontend, mem, file, session, nextId>>

\* the add_doctor route, served in one piece
CallerAddDoctor(c, name, specialty, password) ==
    LET r == add_doctor(mem, nextId, name, specialty, password)
    IN  /\ requests[c].pc = "idle"
        /\ requests[c].who.role = "Admin"
        /\ nextId + r.used - 1 <= ThreadMaxId
        /\ Len(mem.doctors) < MaxDoctors
        /\ current_user' = requests[c].who
        /\ Effect(r)
        /\ UNCHANGED <<requests, variant, frontend, session>>

\* login_required(role='Patient') of patient_book or patient_emergency, up to
\* the assignment of pms.current_user; the form is read
CallerEnter(c, route, person, date, time, problem) ==
    /\ requests[c].pc = "idle"
    /\ IF requests[c].who.role = "Patient"
       THEN /\ current_user' = requests[c].who
            /\ Moves(c, [requests[c] EXCEPT !.pc = route, !.person = person, !.date = date,
                                            !.time = time, !.problem = problem])
            /\ last' = [Blank EXCEPT !.op = "enter", !.msg = route]
       ELSE /\ last' = [Blank EXCEPT !.op = route, !.ok = FALSE, !.msg = "Denied"]
            /\ UNCHANGED <<requests, current_user>>
    /\ UNCHANGED <<variant, frontend, mem, file, session, nextId>>

\* pms.book_appointment(name, age, gender, date, time, problem) of
\* src/deploy/app.py; src/app.py passes five arguments and gets a TypeError
CallerBook(c) ==
    LET req == requests[c]
        r   == book_appointment_core(mem, current_user, nextId, req.person, req.date,
                                     req.time, req.problem)
    IN  /\ req.pc = "book_entered"
        /\ IF frontend = "deploy"
           THEN /\ nextId + r.used - 1 <= ThreadMaxId
                /\ Len(mem.appointments) < ThreadMaxAppts
                /\ Effect(r)
           ELSE /\ last' = [Blank EXCEPT !.op = "book", !.ok = FALSE, !.msg = "TypeError"]
                /\ UNCHANGED <<mem, file, nextId>>
        /\ Moves(c, [Idle EXCEPT !.who = req.who])
        /\ UNCHANGED <<variant, frontend, current_user, session>>

\* pms.log_emergency(name, age, gender, problem) of src/deploy/app.py
CallerEmergency(c) ==
    LET req == requests[c]
        r   == log_emergency(mem, current_user, nextId, req.person, req.problem)
    IN  /\ req.pc = "emergency_entered"
        /\ IF frontend = "deploy"
           THEN /\ nextId + r.used - 1 <= ThreadMaxId
                /\ Len(mem.appointments) < ThreadMaxAppts
                /\ Effect(r)
           ELSE /\ last' = [Blank EXCEPT !.op = "emergency", !.ok = FALSE, !.msg = "TypeError"]
                /\ UNCHANGED <<mem, file, nextId>>
        /\ Moves(c, [Idle EXCEPT !.who = req.who])
        /\ UNCHANGED <<variant, frontend, current_user, session>>

NextThreads ==
    \/ CallerSignup(1, <<"b","o","b">>, "pass", Booker)
    \/ CallerSignup(2, <<"e","v","e">>, "pass", Booker)
    \/ CallerLogin(1, AdminName, "adminpass")
    \/ CallerAddDoctor(1, DoctorAName, "Cardiology", "docpass")
    \/ \E c \in Callers : CallerEnter(c, "book_entered", Booker, Today, "09:00", "Heart")
    \/ \E c \in Callers : CallerEnter(c, "emergency_entered", Booker, "", "", "Heart")
    \/ \E c \in Callers : CallerBook(c)
    \/ \E c \in Callers : CallerEmergency(c)

SpecThreads == InitWeb /\ [][NextThreads]_vars

-----------------------------------------------------------------------------
(* The doctor's day: appointments booked for today and tomorrow, on the hour
   and at noon, and today's schedule asked for *)

GetTodayAppointments(doctor_id) ==
    /\ last' = [Blank EXCEPT !.op = "today", !.doc = doctor_id,
                             !.ids = IF variant = "core"
                                     THEN booked_ids(get_today_appointments_core(mem, doctor_id))
                                     ELSE list_ids(get_today_appointments_dsa(mem, doctor_id))]
    /\ UNCHANGED <<requests, variant, frontend, mem, file, current_user, session, nextId>>

NextToday ==
    \/ \E a \in LoginAttempts : Login(a[1], a[2])
    \/ AddDoctor(MaxId, DoctorAName, "Cardiology", "docpass")
    \/ \E d \in Dates, t \in {"09:00", "12:00"} : BookAppointment(MaxId, MaxAppts, Booker, d, t, "Heart")
    \/ LogEmergency(MaxId, MaxAppts, Booker, "Heart")
    \/ \E i \in 1..Len(mem.doctors) : GetTodayAppointments(mem.doctors[i].id)

SpecToday == Init /\ [][NextToday]_vars

-----------------------------------------------------------------------------
(* Properties of the allocator *)

\* the appointments of `appts` with this doctor on this date
CountOn(appts, doctor_id, date) ==
    Cardinality({i \in 1..Len(appts) : appts[i].doctor_id = doctor_id /\ appts[i].date = date})

\* positions in the doctors collection: the order of insertion
DoctorsOf(data, specialty) == {i \in 1..Len(data.doctors) : data.doctors[i].specialty = specialty}

Booked == last.op = "book" /\ last.ok

\* the appointments before the booking that has just succeeded
Earlier == Front(mem.appointments)

NewAppt == Last(mem.appointments)

\* C2: in book_appointment of src/pms_core.py the doctor assigned has, among the
\* doctors of the resolved specialty, the fewest appointments on the requested
\* date, and among those with that fewest count is the one inserted first.
C2_FewestSameDayFirstInserted ==
    (variant = "core" /\ Booked) =>
        LET cands == DoctorsOf(mem, resolve_specialty(NewAppt.problem))
            n(i)  == CountOn(Earlier, mem.doctors[i].id, NewAppt.date)
        IN  \E c \in cands :
                /\ mem.doctors[c].id = NewAppt.doctor_id
                /\ \A j \in cands : n(c) <= n(j) /\ (n(j) = n(c) => c <= j)

\* a doctor inserted later was assigned: an earlier one had more appointments that day
C2_Witness ==
    /\ variant = "core" /\ Booked
    /\ \E c, j \in DoctorsOf(mem, resolve_specialty(NewAppt.problem)) :
            /\ mem.doctors[c].id = NewAppt.doctor_id
            /\ j < c
            /\ CountOn(Earlier, mem.doctors[j].id, NewAppt.date) = 1
            /\ CountOn(Earlier, mem.doctors[c].id, NewAppt.date) = 0

\* exactly two doctors, both cardiologists: a has no appointment dated today, b has two
TwoCardiologists(a, b) ==
    /\ Len(mem.doctors) = 2
    /\ {a, b} = {1, 2}
    /\ mem.doctors[a].specialty = "Cardiology" /\ mem.doctors[b].specialty = "Cardiology"
    /\ CountOn(Earlier, mem.doctors[a].id, Today) = 0
    /\ CountOn(Earlier, mem.doctors[b].id, Today) = 2

ExpectedSpecialty(problem) ==
    IF problem = "Heart" THEN "Cardiology"
    ELSE IF problem \notin ProblemKeys THEN "General Physician"
    ELSE problem_to_specialty[problem]

\* C4: book_appointment resolves a problem that is no key of the table to
\* "General Physician" and "Heart" to "Cardiology" (the specialty its failure
\* names), and on success the doctor assigned has exactly that specialty.
C4_ResolvedSpecialty ==
    (variant = "core" /\ last.op = "book") =>
        /\ ~last.ok => last.specialty = ExpectedSpecialty(last.problem)
        /\ last.ok =>
              \E i \in 1..Len(mem.doctors) :
                  /\ mem.doctors[i].id = NewAppt.doctor_id
                  /\ mem.doctors[i].specialty = ExpectedSpecialty(last.problem)

\* a problem outside the table was booked, with a general physician
C4_Witness ==
    /\ variant = "core" /\ Booked
    /\ last.problem \notin ProblemKeys
    /\ \E i \in 1..Len(mem.doctors) :
          mem.doctors[i].id = NewAppt.doctor_id /\ mem.doctors[i].specialty = "General Physician"

\* C5: after every successful book_appointment, in both variants, the patients
\* collection holds a record under the new appointment's patient_id.
C5_BookedPatientHasRecord ==
    Booked => NewAppt.patient_id \in DOMAIN mem.patients

\* C6: when no doctor has the resolved specialty, book_appointment of
\* src/pms_core.py fails naming that specialty, appends no appointment and leaves
\* the document in memory and the persisted document as they were.
C6_NoDoctorLeavesAllUnchanged ==
    [][ (variant = "core" /\ last'.op = "book"
            /\ DoctorsOf(mem, resolve_specialty(last'.problem)) = {})
        => /\ ~last'.ok
           /\ last'.msg = "NoDoctor"
           /\ last'.specialty = resolve_specialty(last'.problem)
           /\ mem' = mem
           /\ file' = file ]_vars

\* a booking was refused although there are doctors, of another specialty
C6_Witness ==
    /\ variant = "core" /\ last.op = "book" /\ last.msg = "NoDoctor"
    /\ mem.doctors # <<>>

\* the 42 ten-minute boundaries 09:00..11:50 and 14:00..17:50
Boundaries ==
    { "09:00", "09:10", "09:20", "09:30", "09:40", "09:50",
      "10:00", "10:10", "10:20", "10:30", "10:40", "10:50",
      "11:00", "11:10", "11:20", "11:30", "11:40", "11:50",
      "14:00", "14:10", "14:20", "14:30", "14:40", "14:50",
      "15:00", "15:10", "15:20", "15:30", "15:40", "15:50",
      "16:00", "16:10", "16:20", "16:30", "16:40", "16:50",
      "17:00", "17:10", "17:20", "17:30", "17:40", "17:50" }

\* C7: book_appointment of src/dsa_pbl/pms_core.py returns the invalid-slot
\* failure exactly when the requested time is none of the 42 boundaries (which
\* are the times the code generates); the rejection comes before a doctor is
\* selected and appends no appointment.
C7_InvalidSlotIffOutsideBoundaries ==
    [][ (variant = "dsa" /\ last'.op = "book")
        => /\ Cardinality(Boundaries) = 42 /\ allowed_times = Boundaries
           /\ (last'.msg = "InvalidSlot") <=> (last'.time \notin Boundaries)
           /\ last'.msg = "InvalidSlot" =>
                 /\ ~last'.ok
                 /\ last'.doc = NoneId
                 /\ mem'.appointments = mem.appointments
                 /\ file' = file ]_vars

\* a time outside the grid was refused while there is no doctor at all
C7_Witness ==
    /\ variant = "dsa" /\ last.op = "book" /\ last.msg = "InvalidSlot"
    /\ last.time = "12:00"
    /\ mem.doctors = <<>>

NoDoubleBooking(appts) ==
    \A i, j \in 1..Len(appts) :
        (/\ i # j
         /\ appts[i].status = "Approved" /\ appts[j].status = "Approved"
         /\ appts[i].doctor_id = appts[j].doctor_id
         /\ appts[i].date = appts[j].date)
        => appts[i].time # appts[j].time

\* the booking would put a second Approved appointment on a doctor, date and time
WouldClash(data, date, time) ==
    /\ time \in Boundaries
    /\ data.doctors # <<>>
    /\ \E i \in 1..Len(data.appointments) :
          /\ data.appointments[i].status = "Approved"
          /\ data.appointments[i].doctor_id = data.doctors[1].id
          /\ data.appointments[i].date = date
          /\ data.appointments[i].time = time

\* C8: in src/dsa_pbl/pms_core.py no two Approved appointments ever share doctor,
\* date and time, in memory or in the file; a booking that would create such a
\* pair is rejected with the conflict message and appends nothing.
C8_NoDoubleBooking ==
    [][ variant = "dsa"
        => /\ NoDoubleBooking(mem'.appointments)
           /\ NoDoubleBooking(file'.doc.appointments)
           /\ (last'.op = "book" /\ WouldClash(mem, last'.date, last'.time))
                => /\ ~last'.ok
                   /\ last'.msg = "Conflict"
                   /\ mem'.appointments = mem.appointments
                   /\ file' = file ]_vars

\* a booking was refused for a clash, one Approved appointment holding the slot
C8_Witness ==
    /\ variant = "dsa" /\ last.op = "book" /\ last.msg = "Conflict"
    /\ \E i \in 1..Len(mem.appointments) :
          /\ mem.appointments[i].status = "Approved"
          /\ mem.appointments[i].date = last.date
          /\ mem.appointments[i].time = last.time

\* C9: log_emergency succeeds for a requester with no Patient record and whatever
\* the doctors collection holds: a Patient record built from the supplied name,
\* age and gender then exists under the requester's id, and exactly one
\* appointment, of status Emergency and with no doctor, has been appended for it.
C9_EmergencyNeedsNoRecord ==
    [][ last'.op = "emergency"
        => LET pid == current_user.id
           IN  /\ last'.ok
               /\ pid \in DOMAIN mem'.patients
               /\ pid \notin DOMAIN mem.patients =>
                     mem'.patients[pid] = [id |-> pid, name |-> last'.person.name,
                                           age |-> last'.person.age,
                                           gender |-> last'.person.gender]
               /\ Len(mem'.appointments) = Len(mem.appointments) + 1
               /\ Front(mem'.appointments) = mem.appointments
               /\ Last(mem'.appointments).patient_id = pid
               /\ Last(mem'.appointments).status = "Emergency"
               /\ Last(mem'.appointments).doctor_id = NoneId
               /\ file'.doc.appointments = mem'.appointments ]_vars

\* the first emergency of an instance with no doctor, logged by a requester who
\* had no record (src/pms_core.py creates Patient records nowhere else)
C9_Witness ==
    /\ variant = "core" /\ last.op = "emergency"
    /\ mem.doctors = <<>>
    /\ Len(mem.appointments) = 1
    /\ DOMAIN mem.patients = {last.pid}
    /\ mem.patients[last.pid].name = last.person.name

\* the identifiers a doctor's emergency view shows
ViewIds(data, doctor_id) ==
    LET view == get_emergency_cases(variant, data, doctor_id)
    IN  {view[i].ID : i \in 1..Len(view)}

EmergencyIds(data) ==
    {data.appointments[i].id : i \in {k \in 1..Len(data.appointments) :
                                        data.appointments[k].status = "Emergency"}}

\* the identifiers a doctor can carry
AnyDoctorId == 1..MaxId

\* C10: a logged emergency is in get_emergency_cases(d) for every doctor id d,
\* and stays there for every doctor after any later operation; a query returns
\* it and changes nothing.
C10_EmergencyBroadcast ==
    [][ /\ last'.op = "emergency" => \A d \in AnyDoctorId : last'.appt \in ViewIds(mem', d)
        /\ mem' # mem =>
              \A d \in AnyDoctorId : (ViewIds(mem, d) \cap EmergencyIds(mem)) \subseteq ViewIds(mem', d)
        /\ last'.op = "emergencies" =>
              /\ last'.ids = ViewIds(mem, last'.doc)
              /\ EmergencyIds(mem) \subseteq last'.ids
              /\ mem' = mem /\ file' = file ]_vars

\* the second of two doctors queried and was shown an emergency
C10_Witness ==
    /\ last.op = "emergencies"
    /\ Len(mem.doctors) = 2
    /\ last.doc = mem.doctors[2].id
    /\ last.ids # {}
    /\ last.ids = EmergencyIds(mem)

-----------------------------------------------------------------------------
(* Properties of the front ends *)

\* the username as typed is already what signup stores: stripped, in lower case
Normalized(typed) == str_lower(str_strip(typed)) = typed

SignedUp == last.op = "signup" /\ last.ok /\ Normalized(last.user)

\* C1: in each web front end, after a signup with a fresh username the persisted
\* document holds a User of role Patient and a Patient record with the same id,
\* and a login issued next, with the same username and password, succeeds.
C1_SignupThenLoginSucceeds ==
    [][ SignedUp =>
          /\ last.user \in DOMAIN file.doc.users
          /\ file.doc.users[last.user].role = "Patient"
          /\ file.doc.users[last.user].id = last.pid
          /\ last.pid \in DOMAIN file.doc.patients
          /\ file.doc.patients[last.pid].id = last.pid
          /\ (last'.op = "login" /\ last'.user = last.user /\ last'.pw = last.pw) => last'.ok ]_vars

\* the same in src/deploy/app.py alone, where signup reloads pms.data
C1_DeploySignupThenLoginSucceeds ==
    [][ (frontend = "deploy" /\ SignedUp) =>
          /\ last.user \in DOMAIN file.doc.users
          /\ file.doc.users[last.user].role = "Patient"
          /\ file.doc.users[last.user].id = last.pid
          /\ last.pid \in DOMAIN file.doc.patients
          /\ file.doc.patients[last.pid].id = last.pid
          /\ (last'.op = "login" /\ last'.user = last.user /\ last'.pw = last.pw) => last'.ok ]_vars

-----------------------------------------------------------------------------
(* Properties of referrals and accounts *)

DoctorIds(data) == {data.doctors[i].id : i \in 1..Len(data.doctors)}

\* the referral request found both ids
BothFound(data, r) == r.pid \in DOMAIN data.patients /\ r.doc \in DoctorIds(data)

\* one referral appended for the requested patient and doctor, and saved
OneReferralAppended ==
    /\ Len(mem'.referrals) = Len(mem.referrals) + 1
    /\ SubSeq(mem'.referrals, 1, Len(mem.referrals)) = mem.referrals
    /\ Last(mem'.referrals).patient_id = last'.pid
    /\ Last(mem'.referrals).to_doc_id = last'.doc
    /\ file'.doc.referrals = mem'.referrals

\* C11 as stated: create_referral appends exactly one referral iff the patient id
\* is a key of patients and the doctor id a key of doctors; otherwise the failure
\* names each invalid id and the referrals are unchanged.
C11_FailureNamesEachInvalidId ==
    [][ last'.op = "referral" =>
          /\ last'.ok <=> BothFound(mem, last')
          /\ last'.ok => OneReferralAppended
          /\ ~last'.ok =>
                /\ mem'.referrals = mem.referrals /\ file' = file
                /\ last'.pid \notin DOMAIN mem.patients => last'.msg = "PatientNotFound"
                /\ last'.doc \notin DoctorIds(mem) => last'.msg = "DoctorNotFound" ]_vars

\* C11 amended: create_referral appends exactly one referral iff the patient id
\* is a key of patients and the doctor id a key of doctors; otherwise the failure
\* names the first id found invalid (the patient id before the doctor id) and
\* the referrals are unchanged.
C11_FailureNamesFirstInvalidId ==
    [][ last'.op = "referral" =>
          /\ last'.ok <=> BothFound(mem, last')
          /\ last'.ok => OneReferralAppended
          /\ ~last'.ok =>
                /\ mem'.referrals = mem.referrals /\ file' = file
                /\ last'.msg = IF last'.pid \notin DOMAIN mem.patients THEN "PatientNotFound"
                               ELSE "DoctorNotFound" ]_vars

\* a referral was written for a known patient to a known doctor
C11_Witness ==
    /\ last.op = "referral" /\ last.ok
    /\ Len(file.doc.referrals) = 1
    /\ file.doc.referrals[1].patient_id \in DOMAIN file.doc.patients
    /\ file.doc.referrals[1].to_doc_id \in DoctorIds(file.doc)

JaneDoe == <<"J","a","n","e"," ","D","o","e">>

\* C12: add_doctor derives the username by lower-casing the name and replacing
\* spaces by underscores; when that username is already a key of users in the
\* persisted document, whoever owns it, add_doctor is rejected and neither the
\* doctors nor the users change.
C12_TakenUsernameRejected ==
    [][ last'.op = "add_doctor" =>
          /\ doctor_username(JaneDoe) = <<"j","a","n","e","_","d","o","e">>
          /\ last'.user \in DOMAIN file.doc.users =>
                /\ ~last'.ok
                /\ file'.doc.users = file.doc.users /\ file'.doc.doctors = file.doc.doctors
                /\ mem'.users = mem.users /\ mem'.doctors = mem.doctors ]_vars

\* C13: a signup whose lower-cased username is already a key of users, whatever
\* the role of its owner, is rejected: no User or Patient record is created and
\* the existing user keeps its password, role and id.
C13_TakenSignupRejected ==
    [][ (/\ last'.op = "signup"
         /\ str_lower(str_strip(last'.user)) \in (DOMAIN file.doc.users) \cup (DOMAIN mem.users)) =>
          /\ ~last'.ok
          /\ file' = file /\ mem' = mem
          /\ session' = session /\ current_user' = current_user ]_vars

\* a signup typed in capitals was turned away for a doctor's username
C13_Witness ==
    /\ last.op = "signup" /\ ~last.ok
    /\ last.user = <<"D","r","_","A">>
    /\ file.doc.users[<<"d","r","_","a">>].role = "Doctor"

\* C14: a login fails in the same way for an unknown username as for a known
\* one with a wrong password, and a failed login leaves the current user (and
\* the session) as they were.
C14_FailedLoginChangesNothing ==
    [][ (last'.op = "login" /\ ~last'.ok) =>
          /\ last' = [Blank EXCEPT !.op = "login", !.ok = FALSE, !.msg = "InvalidCredentials",
                                   !.user = last'.user, !.pw = last'.pw]
          /\ \/ str_strip(last'.user) \notin DOMAIN mem.users
             \/ mem.users[str_strip(last'.user)].password # last'.pw
          /\ current_user' = current_user /\ session' = session
          /\ mem' = mem /\ file' = file ]_vars

\* a signed-in patient's browser posted the administrator's name with a wrong password
C14_Witness ==
    /\ last.op = "login" /\ ~last.ok
    /\ last.user = AdminName /\ last.pw = "bobpass"
    /\ current_user.role = "Patient" /\ session.role = "Patient"

\* the instance knows the user that the last signup created
SignedUpAndLoaded ==
    /\ last.op = "signup" /\ last.ok
    /\ signup_username(last.user) \in DOMAIN mem.users
    /\ mem.users[signup_username(last.user)].password = last.pw

\* C15: the username is normalized at login as it is at signup: who signed up
\* typing username U, in any letter case, and password P logs in typing U and P.
C15_LoginAsTypedAtSignup ==
    [][ (/\ SignedUpAndLoaded
         /\ last'.op = "login" /\ last'.user = last.user /\ last'.pw = last.pw) => last'.ok ]_vars

-----------------------------------------------------------------------------
(* Properties of the upcoming check-up *)

\* the order of the dates and of the clock times, written out
DateRank == [d \in Dates |-> IF d = "2026-11-03" THEN 1 ELSE 2]

TimeRank == [t \in {"09:00", "10:07", "12:00", "17:50"} |->
                CASE t = "09:00" -> 1 [] t = "10:07" -> 2 [] t = "12:00" -> 3 [] t = "17:50" -> 4]

\* date d1 at time t1 is strictly before date d2 at time t2
Before(d1, t1, d2, t2) ==
    \/ DateRank[d1] < DateRank[d2]
    \/ DateRank[d1] = DateRank[d2] /\ TimeRank[t1] < TimeRank[t2]

\* the Approved appointments of patient pid strictly after the current instant
UpcomingOf(data, pid) ==
    {i \in 1..Len(data.appointments) :
        /\ data.appointments[i].patient_id = pid
        /\ data.appointments[i].status = "Approved"
        /\ Before("2026-11-03", "10:07", data.appointments[i].date, data.appointments[i].time)}

\* what was returned is appointment a
Returned(found, a) ==
    /\ found # <<>>
    /\ found[1].Date = a.date /\ found[1].Time = a.time /\ found[1].Problem = a.problem

\* C16: get_upcoming_checkup returns an Approved appointment of the requesting
\* patient that is strictly after now and the earliest such; it returns none
\* exactly when the patient has none; never an Emergency or another patient's.
C16_EarliestUpcomingOfPatient ==
    [][ last'.op = "checkup" =>
          /\ (last'.found = <<>>) <=> (UpcomingOf(mem, last'.pid) = {})
          /\ last'.found # <<>> =>
                \E i \in UpcomingOf(mem, last'.pid) :
                    /\ Returned(last'.found, mem.appointments[i])
                    /\ \A j \in UpcomingOf(mem, last'.pid) :
                          ~Before(mem.appointments[j].date, mem.appointments[j].time,
                                  mem.appointments[i].date, mem.appointments[i].time)
          /\ mem' = mem /\ file' = file ]_vars

\* the patient's later appointment was booked first, and the earlier one came back
C16_Witness ==
    /\ last.op = "checkup" /\ last.found # <<>>
    /\ Len(mem.appointments) = 2
    /\ UpcomingOf(mem, last.pid) = {1, 2}
    /\ Before(mem.appointments[2].date, mem.appointments[2].time,
              mem.appointments[1].date, mem.appointments[1].time)
    /\ Returned(last.found, mem.appointments[2])

-----------------------------------------------------------------------------
(* Properties of the visit counts *)

\* the Approved appointments of the document; those with a date
ApprovedOf(data) ==
    {i \in 1..Len(data.appointments) : data.appointments[i].status = "Approved"}

DatedApprovedOf(data) == {i \in ApprovedOf(data) : data.appointments[i].date # ""}

RECURSIVE SumOf(_)
SumOf(counts) ==
    IF DOMAIN counts = {} THEN 0
    ELSE LET d == CHOOSE x \in DOMAIN counts : TRUE
         IN  counts[d] + SumOf([x \in (DOMAIN counts) \ {d} |-> counts[x]])

\* counts maps each date of the appointments in S to their number on that date
CountsOf(counts, data, S) ==
    /\ DOMAIN counts = {data.appointments[i].date : i \in S}
    /\ \A d \in DOMAIN counts :
          counts[d] = Cardinality({i \in S : data.appointments[i].date = d})
    /\ SumOf(counts) = Cardinality(S)

CountsShown == last'.op \in {"admin_dashboard", "patient_counts"} /\ last'.ok

\* C17 as stated: the visit counts map each date to the number of Approved
\* appointments of the whole document on that date; emergencies are never
\* counted, and the counts sum to the number of Approved appointments.
C17_CountsAllApproved ==
    [][ CountsShown => CountsOf(last'.counts, file.doc, ApprovedOf(file.doc)) ]_vars

\* C17 amended: the same, except that api_patient_counts of src/deploy/app.py
\* leaves out the Approved appointments whose date is empty, and its counts sum
\* to the number of Approved appointments that carry a date.
C17_CountsApprovedWithDate ==
    [][ CountsShown =>
          IF last'.op = "patient_counts" /\ frontend = "deploy"
          THEN CountsOf(last'.counts, file.doc, DatedApprovedOf(file.doc))
          ELSE CountsOf(last'.counts, file.doc, ApprovedOf(file.doc)) ]_vars

\* the chart data were served with an approved appointment and an emergency on file
C17_Witness ==
    /\ last.op = "patient_counts" /\ last.ok
    /\ Len(file.doc.appointments) = 2
    /\ \E i, j \in 1..2 : /\ file.doc.appointments[i].status = "Approved"
                          /\ file.doc.appointments[j].status = "Emergency"
                          /\ file.doc.appointments[i].date = file.doc.appointments[j].date
    /\ SumOf(last.counts) = 1

-----------------------------------------------------------------------------
(* Properties of the records *)

\* C18: when add_doctor, book_appointment, create_referral or upload_report
\* returns a failure, nothing was written: the document of the instance and
\* the persisted document are what they were before the call.
C18_FailureWritesNothing ==
    [][ (last'.op \in {"add_doctor", "book", "referral", "report"} /\ ~last'.ok) =>
          (mem' = mem /\ file' = file) ]_vars

\* the records of a document, each named by its kind and by what identifies it:
\* the username, the key of the patient, the id, the position of a referral
RecordsOf(data) ==
    {<<"user", u>> : u \in DOMAIN data.users}
    \cup {<<"patient", k>> : k \in DOMAIN data.patients}
    \cup {<<"doctor", data.doctors[i].id>> : i \in 1..Len(data.doctors)}
    \cup {<<"appointment", data.appointments[i].id>> : i \in 1..Len(data.appointments)}
    \cup {<<"referral", i>> : i \in 1..Len(data.referrals)}
    \cup UNION {{<<"report", data.reports[k][i].report_id>> : i \in 1..Len(data.reports[k])} :
                  k \in DOMAIN data.reports}

\* C19: a User, Patient, Doctor, Appointment, Referral or Report record that is
\* in the persisted document after one operation is still there after every
\* later operation.
C19_RecordsNeverLeaveTheFile ==
    [][ RecordsOf(file.doc) \subseteq RecordsOf(file'.doc) ]_vars

\* what an appointment is created with and keeps
Fixed(appt) ==
    [status |-> appt.status, doctor_id |-> appt.doctor_id, date |-> appt.date, time |-> appt.time]

\* every appointment of the document `before` that is also in `after` has kept
\* its status, doctor_id, date and time
SameWhereKept(before, after) ==
    \A i \in 1..Len(before.appointments), j \in 1..Len(after.appointments) :
        before.appointments[i].id = after.appointments[j].id =>
            Fixed(before.appointments[i]) = Fixed(after.appointments[j])

\* every appointment of `after` that `before` does not hold was created by this
\* operation, with the status that operation gives
CreatedWithStatus(before, after, op) ==
    \A j \in 1..Len(after.appointments) :
        (\A i \in 1..Len(before.appointments) :
            before.appointments[i].id # after.appointments[j].id) =>
            \/ op = "book" /\ after.appointments[j].status = "Approved"
            \/ op = "emergency" /\ after.appointments[j].status = "Emergency"

\* C20: an appointment gets its status when it is created, Approved by
\* book_appointment and Emergency by log_emergency, and no operation changes
\* the status, doctor_id, date or time of an appointment that exists, in the
\* document of the instance or in the persisted one.
C20_AppointmentFixedAtCreation ==
    [][ /\ SameWhereKept(mem, mem')
        /\ SameWhereKept(file.doc, file'.doc)
        /\ CreatedWithStatus(file.doc, file'.doc, last'.op) ]_vars

\* an emergency was logged by a patient who already holds an approved
\* appointment with a doctor, and both are on file
C20_Witness ==
    /\ last.op = "emergency" /\ last.ok
    /\ Len(file.doc.appointments) >= 2
    /\ \E i, j \in 1..Len(file.doc.appointments) :
          /\ i < j
          /\ file.doc.appointments[i].status = "Approved"
          /\ file.doc.appointments[i].doctor_id # NoneId
          /\ file.doc.appointments[i].patient_id = last.pid
          /\ file.doc.appointments[j].id = last.appt
          /\ file.doc.appointments[j].status = "Emergency"
    /\ mem.appointments = file.doc.appointments

-----------------------------------------------------------------------------
(* Properties of the whole document *)

\* the users of role Doctor that carry the id
DoctorUsersOf(data, id) ==
    {u \in DOMAIN data.users : data.users[u].role = "Doctor" /\ data.users[u].id = id}

PairedOneToOne(data) ==
    /\ \A i \in 1..Len(data.doctors) :
          Cardinality(DoctorUsersOf(data, data.doctors[i].id)) = 1
    /\ \A u \in DOMAIN data.users :
          data.users[u].role = "Doctor" =>
              \E i \in 1..Len(data.doctors) : data.doctors[i].id = data.users[u].id

\* C21: in every reachable state the Doctor records and the Users of role
\* Doctor are paired one to one, in the document of the instance and in the
\* persisted document: the id of each Doctor record is the id of exactly one
\* User of role Doctor, and each User of role Doctor carries the id of a
\* Doctor record.
C21_DoctorsPairedWithUsers == PairedOneToOne(mem) /\ PairedOneToOne(file.doc)

\* a second doctor was added: two Doctor records and two Users of role Doctor
\* are on file
C21_Witness ==
    /\ last.op = "add_doctor" /\ last.ok
    /\ Len(file.doc.doctors) = 2
    /\ Cardinality({u \in DOMAIN file.doc.users : file.doc.users[u].role = "Doctor"}) = 2

\* the report entries of a document
ReportsOf(data) ==
    UNION {{data.reports[k][i] : i \in 1..Len(data.reports[k])} : k \in DOMAIN data.reports}

\* the entry has details text or a file reference; upload_report writes entries
\* with a report_id, doctor_upload_report entries without
CarriesSomething(r) ==
    IF "report_id" \in DOMAIN r
    THEN r.Details # NoText \/ r.File # NoText
    ELSE r.Details # NoChars \/ r.File # NoChars

\* C22: every report entry stored in the document carries details text or a
\* file reference, whatever was uploaded: empty details, or a file whose
\* extension is not allowed.
C22_ReportCarriesDetailsOrFile ==
    /\ \A r \in ReportsOf(file.doc) : CarriesSomething(r)
    /\ \A r \in ReportsOf(mem) : CarriesSomething(r)

-----------------------------------------------------------------------------
(* Properties of interleaved requests *)

\* the browser's signup has written its account to the file
HasSaved(req) == req.pc = "signup_saved" \/ (req.pc = "idle" /\ req.who.role = "Patient")

\* the account its signup wrote: the username and the patient id
ChangeOf(req) ==
    IF req.pc = "signup_saved" THEN <<req.user, req.pid>> ELSE <<req.who.username, req.who.id>>

\* the document holds the account and its Patient record
Holds(data, change) ==
    /\ change[1] \in DOMAIN data.users
    /\ data.users[change[1]].id = change[2]
    /\ change[2] \in DOMAIN data.patients

\* browser c saves; d has saved since c loaded, so both loaded before either saved
SavesSecond(c, d) ==
    /\ c # d
    /\ requests[c].pc = "signup_loaded" /\ requests'[c].pc = "signup_saved"
    /\ HasSaved(requests[d])
    /\ Holds(file.doc, ChangeOf(requests[d]))
    /\ ~Holds(requests[c].data, ChangeOf(requests[d]))

\* C23: when two callers have each loaded the whole document before either
\* saved, and each saves its own change, the persisted document after the
\* second save holds the second saver's change and no longer the first
\* saver's: the last save wins.
C23_LastSaveWins ==
    [][ \A c, d \in Callers :
          SavesSecond(c, d) =>
              /\ Holds(file'.doc, ChangeOf(requests'[c]))
              /\ ~Holds(file'.doc, ChangeOf(requests[d])) ]_vars

\* both browsers have signed up under different usernames, each having loaded
\* the file before the other saved: one account is on file, the other is not
C23_Witness ==
    /\ \A c \in Callers : requests[c].pc = "idle" /\ requests[c].who.role = "Patient"
    /\ requests[1].who.username # requests[2].who.username
    /\ \E c, d \in Callers :
          /\ Holds(file.doc, ChangeOf(requests[c]))
          /\ ~Holds(file.doc, ChangeOf(requests[d]))
    /\ Cardinality(DOMAIN file.doc.users) = 3

\* both browsers are logged in as patients, each with an id of its own, and
\* pms.current_user is as login_required left it for one of their requests
TwoPatients ==
    /\ \A c \in Callers : requests[c].who.role = "Patient"
    /\ requests[1].who.id # requests[2].who.id
    /\ last.op = "enter"

\* the request of browser c has just made an appointment or an emergency
Created(c) ==
    /\ requests[c].pc \in {"book_entered", "emergency_entered"}
    /\ requests'[c].pc = "idle"
    /\ last'.ok
    /\ Len(mem'.appointments) = Len(mem.appointments) + 1

\* C27: when the requests of two logged-in patients interleave, every
\* appointment or emergency created carries the patient id of the session
\* that issued the request.
C27_RecordCarriesTheRequestersId ==
    [][ \A c \in Callers :
          (TwoPatients /\ Created(c)) =>
              Last(mem'.appointments).patient_id = requests[c].who.id ]_vars


-----------------------------------------------------------------------------
(* Properties of the store *)

\* the records of a document, each with all it holds
ContentsOf(data) ==
    {<<"user", u, data.users[u]>> : u \in DOMAIN data.users}
    \cup {<<"patient", k, data.patients[k]>> : k \in DOMAIN data.patients}
    \cup {<<"doctor", data.doctors[i]>> : i \in 1..Len(data.doctors)}
    \cup {<<"appointment", data.appointments[i]>> : i \in 1..Len(data.appointments)}

\* what the save of this step kept of the document that had gone missing or bad
KeptOfPrior == ContentsOf(file'.doc) \cap ContentsOf(file.doc)

FirstSaveAfterLoss == file.state # "ok" /\ file'.state = "ok"

LoadedAfterLoss ==
    /\ file.state # "ok"
    /\ last'.op \in {"admin_dashboard", "patient_dashboard"}
    /\ last'.msg # "Denied"

\* C24 as stated: a load of a missing or unparsable document returns the
\* default document, and the next save, by any operation, writes a document
\* derived from the default: nothing of the prior data is in it.
C24_NextSaveDerivedFromDefault ==
    [][ /\ LoadedAfterLoss => mem' = DefaultDoc
        /\ FirstSaveAfterLoss => KeptOfPrior \subseteq ContentsOf(DefaultDoc) ]_vars

\* C24 amended: the same for a save by an operation that loaded the document
\* after it went missing or bad (signup); a PatientManagementSystem method
\* saves the document its instance holds, so what it keeps of the prior data
\* is what that document held before the call.
C24_NextSaveDerivedFromWhatWasLoaded ==
    [][ /\ LoadedAfterLoss => mem' = DefaultDoc
        /\ FirstSaveAfterLoss =>
              KeptOfPrior \subseteq
                  ContentsOf(DefaultDoc)
                  \cup (IF last'.op = "signup" THEN {} ELSE ContentsOf(JsonDoc(mem))) ]_vars

\* a signup has written the file anew after the document was lost: the doctor
\* the instance still holds is not on file any more
C24_Witness ==
    /\ last.op = "signup" /\ last.ok
    /\ file.state = "ok"
    /\ Len(mem.doctors) = 1
    /\ Len(file.doc.doctors) = 0
    /\ DOMAIN file.doc.users = {AdminName, <<"b","o","b">>}

-----------------------------------------------------------------------------
(* Properties of booking without a slot check *)

\* C25: in src/pms_core.py book_appointment succeeds whenever a doctor of the
\* resolved specialty exists, whatever appointments there are: the Approved
\* record is appended and saved, also when the doctor already has an Approved
\* appointment on that date at that time.
C25_BookingNeedsOnlyADoctor ==
    [][ ( /\ variant = "core"
          /\ last'.op = "book"
          /\ DoctorsOf(mem, ExpectedSpecialty(last'.problem)) # {} ) =>
            /\ last'.ok
            /\ Len(mem'.appointments) = Len(mem.appointments) + 1
            /\ SubSeq(mem'.appointments, 1, Len(mem.appointments)) = mem.appointments
            /\ Last(mem'.appointments).status = "Approved"
            /\ Last(mem'.appointments).date = last'.date
            /\ Last(mem'.appointments).time = last'.time
            /\ file'.doc.appointments = mem'.appointments ]_vars

\* a second booking with the same doctor for the same date and time went
\* through: both Approved records are on file
C25_Witness ==
    /\ variant = "core"
    /\ last.op = "book" /\ last.ok
    /\ Len(file.doc.appointments) = 2
    /\ file.doc.appointments[1].status = "Approved"
    /\ file.doc.appointments[2].status = "Approved"
    /\ file.doc.appointments[1].doctor_id = file.doc.appointments[2].doctor_id
    /\ file.doc.appointments[1].date = file.doc.appointments[2].date
    /\ file.doc.appointments[1].time = file.doc.appointments[2].time
    /\ file.doc.appointments[1].id # file.doc.appointments[2].id

-----------------------------------------------------------------------------
(* Properties of the two copies of the document *)

\* C26: after every completed operation the document held by the instance,
\* as json.dump would write it, is the persisted document.
C26_InstanceEqualsFile == file.state = "ok" /\ JsonDoc(mem) = file.doc

-----------------------------------------------------------------------------
(* Properties of the first start *)

\* C28: right after setup_initial_patient has returned True on a newly
\* constructed instance, login('test_patient', 'patientpass') on that instance
\* succeeds, with no reload in between.
C28_PreconfiguredAccountLogsIn ==
    [][ ( /\ last.op = "setup" /\ last.ok
          /\ last'.op = "login"
          /\ last'.user = TestPatientName /\ last'.pw = "patientpass" ) => last'.ok ]_vars

-----------------------------------------------------------------------------
(* Properties of today's schedule *)

\* C29: for every doctor and every reachable document the two presentations
\* of today's schedule show the same appointments: the ids in the Booked slots
\* of the grid of src/pms_core.py are the ids of the list of
\* src/dsa_pbl/pms_core.py.
C29_GridShowsWhatListShows ==
    last.op = "today" =>
        booked_ids(get_today_appointments_core(mem, last.doc))
            = list_ids(get_today_appointments_dsa(mem, last.doc))

-----------------------------------------------------------------------------
(* Properties of the reports *)

\* C30: in every reachable state every patient id that keys a report list of
\* the reports collection is the id of a Patient record of the same document.
C30_ReportsKeyedByPatients ==
    /\ DOMAIN file.doc.reports \subseteq DOMAIN file.doc.patients
    /\ DOMAIN mem.reports \subseteq DOMAIN mem.patients

====
